---- MODULE Spec2Model ----
(***************************************************************************)
(* Model of UDPv6Transport (src/src/cpp/transport/UDPv6Transport.cpp):     *)
(* the channel registry (output sockets by port or by locator, input       *)
(* sockets by port), the socket lifecycle, send fan-out, the blocking      *)
(* receive built on an asynchronous read, and initialisation / teardown.   *)
(*                                                                         *)
(* A caller is a thread inside a method; a method is split where the code  *)
(* acquires or releases mInputMapMutex or mOutputMapMutex, and every step  *)
(* between two such points is one action. The specifications share the     *)
(* state and these actions:                                                *)
(*   Spec    one caller thread and the io_service thread, every method,    *)
(*           every locator and every mode and whitelist;                   *)
(*   SpecMT  two caller threads in the input-channel methods, and the      *)
(*           io_service thread;                                            *)
(*   SpecMTOut  two caller threads in the output-channel methods;          *)
(*   SpecMTAll  two caller threads in the methods of both directions;      *)
(*   SpecLifecycle  construction from any descriptor, init and the         *)
(*           destructor;                                                   *)
(*   SpecLocators  RemoteToMainLocal and NormalizeLocator.                 *)
(* Native calls that can fail (socket open / set_option / bind, join_group,*)
(* send_to, the completion of a read) are inputs chosen with \E.           *)
(* C++ arrays are 0-based, TLA+ tuples 1-based: address[0] is address[1].  *)
(***************************************************************************)
EXTENDS Integers, Sequences, FiniteSets, TLC

(***************************** bounds **************************************)
\* The callers open channels while fewer than MaxSockets socket objects
\* have been created; a call that was made runs as the code runs it.
MaxSockets == 2

(*************************** program constants ****************************)
maximumUDPSocketSize == 65536
maximumMessageSize == 65500
\* The first address octet of a multicast IPv6 address (0xFF).
MulticastPrefix == 255
\* static_cast<uint16_t>(port) keeps the low 16 bits.
PortModulus == 65536

LOCATOR_KIND_UDPv4 == "UDPv4"
LOCATOR_KIND_UDPv6 == "UDPv6"
Kinds == {LOCATOR_KIND_UDPv4, LOCATOR_KIND_UDPv6}

(***************************** addresses ***********************************)
Zero16 == [i \in 1..16 |-> 0]
\* ::
AddrAny == Zero16
\* ::1
AddrLoopback == [Zero16 EXCEPT ![16] = 1]
\* fe80::a
AddrIfA == [Zero16 EXCEPT ![1] = 254, ![2] = 128, ![16] = 10]
\* fe80::b
AddrIfB == [Zero16 EXCEPT ![1] = 254, ![2] = 128, ![16] = 11]
\* 2001:db8::1, an address of no local interface
AddrRemote == [Zero16 EXCEPT ![1] = 32, ![2] = 1, ![3] = 13, ![4] = 184, ![16] = 1]
\* ff02::1
AddrMcast == [Zero16 EXCEPT ![1] = 255, ![2] = 2, ![16] = 1]

\* Locator ports are 32 bits wide; the second one does not fit 16 bits.
Ports == {7400, 72936}
\* Locators handed to the methods: every UDPv6 locator over these addresses,
\* and locators of a foreign kind.
LocalAddresses == {AddrAny, AddrIfA, AddrMcast}
Locators ==
    [kind : {LOCATOR_KIND_UDPv6}, address : LocalAddresses, port : Ports]
    \cup [kind : {LOCATOR_KIND_UDPv4}, address : {AddrIfA}, port : Ports]

\* What IPFinder::getIPs reports after GetIP6s dropped the IPv4 entries.
LocalIP6s == <<AddrLoopback, AddrIfA, AddrIfB>>

\* Configurations the descriptor can carry.
MessageSizes == {maximumMessageSize, maximumMessageSize + 1}
BufferSizes == {maximumMessageSize - 1, maximumMessageSize, maximumUDPSocketSize}
WhiteLists == {{}, {AddrIfA, AddrIfB}, {AddrRemote}}
\* Lengths handed to Send and capacities handed to Receive: at and next to
\* the descriptor's default buffer size.
SendLengths == {maximumUDPSocketSize, maximumUDPSocketSize + 1}
ReceiveCapacities == {maximumUDPSocketSize - 1, maximumUDPSocketSize}
\* Sizes of the datagrams that arrive.
DatagramSizes == {0, 100}

VARIABLES
    mMaxMessageSize, mSendBufferSize, mReceiveBufferSize, mGranularMode,
    mInterfaceWhiteList,
    ioServiceThread,        \* "null" | "running" | "joined" | "aborted"
    alive,                  \* the transport object exists in a live process
    mOutputSockets,         \* port -> sequence of sockets
    mGranularOutputSockets, \* locator -> socket
    mInputSockets,          \* port -> socket
    nextSocket,             \* identity of the next socket object
    pc,                     \* where each caller thread stands
    frame,                  \* each thread's call, its locals and its result
    mInputMapMutex,         \* owner and depth of the recursive mutex
    mOutputMapMutex,        \* the same for the output maps' mutex
    pendingReads,           \* reads registered on sockets, oldest first
    readyHandlers           \* completions queued on mService

config == <<mMaxMessageSize, mSendBufferSize, mReceiveBufferSize, mGranularMode,
            mInterfaceWhiteList>>
registry == <<mOutputSockets, mGranularOutputSockets, mInputSockets>>
mt == <<pc, frame, mInputMapMutex, mOutputMapMutex, pendingReads,
       readyHandlers>>
vars == <<config, ioServiceThread, alive, registry, nextSocket, mt>>

(****************************** maps ***************************************)
EmptyMap == [k \in {} |-> {}]
Erase(m, k) == [x \in (DOMAIN m) \ {k} |-> m[x]]
Put(m, k, v) == [x \in (DOMAIN m) \cup {k} |-> IF x = k THEN v ELSE m[x]]
\* std::map::operator[] followed by push_back.
PushBack(m, k, v) == Put(m, k, (IF k \in DOMAIN m THEN m[k] ELSE <<>>) \o <<v>>)
Ids(socks) == {socks[i].id : i \in DOMAIN socks}

(************************ locators and interfaces **************************)
\* Mutant: the kind of the UDPv4 transport is the one accepted.
IsLocatorSupported_UDPv4(locator) == locator.kind = LOCATOR_KIND_UDPv4

\* UDPv6Transport::IsLocatorSupported
IsLocatorSupported(locator) == locator.kind = LOCATOR_KIND_UDPv6

\* IsMulticastAddress: locator.address[0] == 0xFF
IsMulticastAddress(locator) == locator.address[1] = MulticastPrefix

\* ip::address_v6::from_string(locator.to_IP6_string()): the locator's 16
\* address octets as a native address (Locator_t::to_IP6_string is declared
\* outside this file).
ToAddressV6(locator) == locator.address

\* UDPv6Transport::IsInterfaceAllowed
IsInterfaceAllowed(ip) ==
    \/ mInterfaceWhiteList = {}
    \/ ip = AddrAny
    \/ ip \in mInterfaceWhiteList

\* UDPv6Transport::DoLocatorsMatch
DoLocatorsMatch(left, right) ==
    IF mGranularMode THEN left = right ELSE left.port = right.port

(**************************** existence queries ****************************)
\* IsInputChannelOpen evaluated on a given input map.
InputOpenIn(inS, locator) ==
    IsLocatorSupported(locator) /\ locator.port \in DOMAIN inS

\* UDPv6Transport::IsInputChannelOpen
IsInputChannelOpen(locator) == InputOpenIn(mInputSockets, locator)

\* IsOutputChannelOpen evaluated on given output maps.
OutputOpenIn(outS, granS, locator) ==
    IF ~IsLocatorSupported(locator) THEN FALSE
    ELSE IF mGranularMode THEN locator \in DOMAIN granS
    ELSE locator.port \in DOMAIN outS

\* UDPv6Transport::IsOutputChannelOpen
IsOutputChannelOpen(locator) ==
    OutputOpenIn(mOutputSockets, mGranularOutputSockets, locator)

(***************************** socket lifecycle ****************************)
\* UDPv6Transport::OpenAndBindUnicastOutputSocket, when no native call throws.
OpenAndBindUnicastOutputSocket(id, ipAddress, port) ==
    [id |-> id, addr |-> ipAddress, port |-> port % PortModulus,
     send_buffer_size |-> mSendBufferSize]

\* UDPv6Transport::OpenAndBindInputSocket, when no native call throws.
OpenAndBindInputSocket(id, port) ==
    [id |-> id, addr |-> AddrAny, port |-> port % PortModulus,
     receive_buffer_size |-> mReceiveBufferSize, reuse_address |-> TRUE,
     enable_loopback |-> TRUE, groups |-> {}]

(************************* opening output channels *************************)
\* Mutant: the loop ends after the first interface it binds.
NextAllowed_FirstOnly(i) ==
    LET S == {j \in 1..Len(LocalIP6s) : IsInterfaceAllowed(LocalIP6s[j])}
    IN IF i # 0 \/ S = {} THEN 0 ELSE CHOOSE j \in S : \A k \in S : j <= k

\* The loop of lines 225-231 of OpenAndBindOutputSockets: the first interface
\* after index i that IsInterfaceAllowed lets through (0: there is none).
NextAllowed(i) ==
    LET S == {j \in (i + 1)..Len(LocalIP6s) : IsInterfaceAllowed(LocalIP6s[j])}
    IN IF S = {} THEN 0 ELSE CHOOSE j \in S : \A k \in S : j <= k

\* Mutant: a bind that throws leaves the port's entry in the map.
BindOutputSocket_NoRollback(outS, next, port, ip, ok) ==
    IF ok
    THEN [out |-> PushBack(outS, port,
                           OpenAndBindUnicastOutputSocket(next, ip, port)),
          next |-> next + 1, ret |-> TRUE]
    ELSE [out |-> outS, next |-> next, ret |-> FALSE]

\* OpenAndBindOutputSockets, one
\* mOutputSockets[port].push_back(OpenAndBindUnicastOutputSocket(ip, port))
\* of its try block (lines 220 and 229); ok is whether the native calls
\* returned rather than threw. A throw is caught (lines 235-240): the
\* port's entry is erased and the method returns false.
BindOutputSocket(outS, next, port, ip, ok) ==
    IF ok
    THEN [out |-> PushBack(outS, port,
                           OpenAndBindUnicastOutputSocket(next, ip, port)),
          next |-> next + 1, ret |-> TRUE]
    ELSE [out |-> Erase(outS, port), next |-> next, ret |-> FALSE]

\* std::map::insert and emplace keep an element that is already there.
Insert(m, k, v) == IF k \in DOMAIN m THEN m ELSE Put(m, k, v)

\* UDPv6Transport::OpenAndBindGranularOutputSocket; ok is whether the
\* native calls returned rather than threw.
OpenAndBindGranularOutputSocket(granS, next, locator, ok) ==
    IF ~IsInterfaceAllowed(ToAddressV6(locator))
    THEN [gran |-> granS, next |-> next, ret |-> FALSE]
    ELSE IF ~ok
    THEN [gran |-> Erase(granS, locator), next |-> next, ret |-> FALSE]
    ELSE [gran |-> Insert(granS, locator,
                     OpenAndBindUnicastOutputSocket(next, ToAddressV6(locator),
                                                    locator.port)),
          next |-> next + 1, ret |-> TRUE]

(************************* opening input channels **************************)
\* UDPv6Transport::OpenAndBindInputSockets; bindOk is whether the native
\* calls of OpenAndBindInputSocket returned rather than threw.
OpenAndBindInputSockets(inS, next, port, bindOk) ==
    IF ~bindOk
    THEN [inp |-> Erase(inS, port), next |-> next, ret |-> FALSE]
    ELSE [inp |-> Insert(inS, port, OpenAndBindInputSocket(next, port)),
          next |-> next + 1, ret |-> TRUE]

\* socket.set_option(ip::multicast::join_group(...)) on the port's socket.
JoinGroup(inS, port, group) ==
    [inS EXCEPT ![port].groups = @ \cup {group}]

\* UDPv6Transport::OpenInputChannel as one call. fault: the system_error of
\* a failed join_group leaves the method, which then returns nothing.
OpenInputChannelCall(inS, next, locator, bindOk, joinOk) ==
    IF ~IsLocatorSupported(locator)
    THEN [inp |-> inS, next |-> next, ret |-> FALSE, fault |-> FALSE,
          joined |-> {}]
    ELSE LET opened == IF ~InputOpenIn(inS, locator)
                       THEN OpenAndBindInputSockets(inS, next, locator.port, bindOk)
                       ELSE [inp |-> inS, next |-> next, ret |-> FALSE]
         IN IF IsMulticastAddress(locator) /\ InputOpenIn(opened.inp, locator)
            THEN IF joinOk
                 THEN [inp |-> JoinGroup(opened.inp, locator.port,
                                         ToAddressV6(locator)),
                       next |-> opened.next, ret |-> opened.ret, fault |-> FALSE,
                       joined |-> {[sock |-> opened.inp[locator.port].id,
                                    group |-> ToAddressV6(locator)]}]
                 ELSE [inp |-> opened.inp, next |-> opened.next,
                       ret |-> FALSE, fault |-> TRUE, joined |-> {}]
            ELSE [inp |-> opened.inp, next |-> opened.next, ret |-> opened.ret,
                  fault |-> FALSE, joined |-> {}]

(**************************** closing channels *****************************)
\* Mutant: only the first socket of a port is cancelled and closed.
CloseOutputChannelCall_FirstSocket(outS, granS, locator) ==
    IF ~OutputOpenIn(outS, granS, locator)
    THEN [out |-> outS, gran |-> granS, ret |-> FALSE, closed |-> {}]
    ELSE IF mGranularMode
    THEN [out |-> outS, gran |-> Erase(granS, locator), ret |-> TRUE,
          closed |-> {granS[locator].id}]
    ELSE [out |-> Erase(outS, locator.port), gran |-> granS, ret |-> TRUE,
          closed |-> {outS[locator.port][1].id}]

\* Mutant: granular mode erases every locator of the port.
CloseOutputChannelCall_ByPort(outS, granS, locator) ==
    IF ~OutputOpenIn(outS, granS, locator)
    THEN [out |-> outS, gran |-> granS, ret |-> FALSE, closed |-> {}]
    ELSE IF mGranularMode
    THEN [out |-> outS,
          gran |-> [l \in {k \in DOMAIN granS : k.port # locator.port}
                      |-> granS[l]],
          ret |-> TRUE, closed |-> {granS[locator].id}]
    ELSE [out |-> Erase(outS, locator.port), gran |-> granS, ret |-> TRUE,
          closed |-> Ids(outS[locator.port])]

\* UDPv6Transport::CloseOutputChannel as one call; closed holds the sockets
\* it cancelled and closed.
CloseOutputChannelCall(outS, granS, locator) ==
    IF ~OutputOpenIn(outS, granS, locator)
    THEN [out |-> outS, gran |-> granS, ret |-> FALSE, closed |-> {}]
    ELSE IF mGranularMode
    THEN [out |-> outS, gran |-> Erase(granS, locator), ret |-> TRUE,
          closed |-> {granS[locator].id}]
    ELSE [out |-> Erase(outS, locator.port), gran |-> granS, ret |-> TRUE,
          closed |-> Ids(outS[locator.port])]

\* UDPv6Transport::CloseInputChannel as one call.
CloseInputChannelCall(inS, locator) ==
    IF ~InputOpenIn(inS, locator)
    THEN [inp |-> inS, ret |-> FALSE, closed |-> {}]
    ELSE [inp |-> Erase(inS, locator.port), ret |-> TRUE,
          closed |-> {inS[locator.port].id}]

(********************************* send ************************************)
\* Remote locators handed to Send, and the endpoints datagrams come from.
RemoteLocators == {[kind |-> LOCATOR_KIND_UDPv6, address |-> AddrRemote, port |-> 72936]}
SenderEndpoints == {[addr |-> AddrLoopback, port |-> 50000]}

\* UDPv6Transport::SendThroughSocket: one send_to on the socket; ok is
\* whether send_to returned rather than threw. The write and its result.
SendThroughSocket(remoteLocator, socket, ok) ==
    [write |-> [sock |-> socket.id,
                to |-> [addr |-> remoteLocator.address,
                        port |-> remoteLocator.port % PortModulus],
                ok |-> ok],
     ret |-> ok]

\* Mutant: the fan-out ends at the first write that fails.
RECURSIVE SendFanOut_StopsAtFailure(_, _, _, _, _, _)
SendFanOut_StopsAtFailure(sockets, i, remoteLocator, okIds, success, writes) ==
    IF i > Len(sockets) THEN [ret |-> success, writes |-> writes]
    ELSE LET r == SendThroughSocket(remoteLocator, sockets[i],
                                    sockets[i].id \in okIds)
         IN IF ~r.ret THEN [ret |-> success, writes |-> Append(writes, r.write)]
            ELSE SendFanOut_StopsAtFailure(sockets, i + 1, remoteLocator, okIds,
                                           TRUE, Append(writes, r.write))

\* The fan-out loop of Send over the sockets of a port, from index i on;
\* okIds are the sockets whose send_to does not throw.
RECURSIVE SendFanOut(_, _, _, _, _, _)
SendFanOut(sockets, i, remoteLocator, okIds, success, writes) ==
    IF i > Len(sockets) THEN [ret |-> success, writes |-> writes]
    ELSE LET r == SendThroughSocket(remoteLocator, sockets[i],
                                    sockets[i].id \in okIds)
         IN SendFanOut(sockets, i + 1, remoteLocator, okIds,
                       success \/ r.ret, Append(writes, r.write))

\* The sockets Send writes to (none when it rejects the call).
SendTargets(outS, granS, sendBufferSize, localLocator) ==
    IF ~OutputOpenIn(outS, granS, localLocator) \/ sendBufferSize > mSendBufferSize
    THEN {}
    ELSE IF mGranularMode THEN {granS[localLocator].id}
    ELSE Ids(outS[localLocator.port])

\* Mutant: the length is not compared with the send buffer size.
SendCall_NoLengthCheck(outS, granS, sendBufferSize, localLocator, remoteLocator, okIds) ==
    IF ~OutputOpenIn(outS, granS, localLocator)
    THEN [ret |-> FALSE, writes |-> <<>>]
    ELSE IF mGranularMode
    THEN SendFanOut(<<granS[localLocator]>>, 1, remoteLocator, okIds, FALSE, <<>>)
    ELSE SendFanOut(outS[localLocator.port], 1, remoteLocator, okIds, FALSE, <<>>)

\* UDPv6Transport::Send as one call.
SendCall(outS, granS, sendBufferSize, localLocator, remoteLocator, okIds) ==
    IF ~OutputOpenIn(outS, granS, localLocator) \/ sendBufferSize > mSendBufferSize
    THEN [ret |-> FALSE, writes |-> <<>>]
    ELSE IF mGranularMode
    THEN SendFanOut(<<granS[localLocator]>>, 1, remoteLocator, okIds, FALSE, <<>>)
    ELSE SendFanOut(outS[localLocator.port], 1, remoteLocator, okIds, FALSE, <<>>)

(******************************** receive **********************************)
\* EndpointToLocator: port and address are copied from the endpoint; the
\* kind stays what Locator_t's default constructor made it.
EndpointToLocator(endpoint) ==
    [kind |-> LOCATOR_KIND_UDPv4, address |-> endpoint.addr, port |-> endpoint.port]

\* Mutant: the handler leaves on an error without posting the semaphore.
ReceiveHandler_NoPostOnError(error, bytes_transferred) ==
    IF error THEN [receiveBufferSize |-> 0, success |-> FALSE, post |-> 0]
    ELSE [receiveBufferSize |-> bytes_transferred, success |-> TRUE, post |-> 1]

\* The completion handler of Receive: what it writes to receiveBufferSize
\* and to success, and its post of the semaphore.
ReceiveHandler(error, bytes_transferred) ==
    IF error THEN [receiveBufferSize |-> 0, success |-> FALSE, post |-> 1]
    ELSE [receiveBufferSize |-> bytes_transferred, success |-> TRUE, post |-> 1]

\* The test Receive makes before it registers a read.
ReceiveRejects(inS, receiveBufferCapacity, localLocator) ==
    ~InputOpenIn(inS, localLocator) \/ receiveBufferCapacity < mReceiveBufferSize

(*************************** init and teardown *****************************)
\* Mutant: the receive buffer size is not checked.
initCall_NoReceiveCheck ==
    IF mMaxMessageSize > maximumMessageSize THEN FALSE
    ELSE IF mMaxMessageSize > mSendBufferSize THEN FALSE
    ELSE TRUE

\* UDPv6Transport::init: its result.
initCall ==
    IF mMaxMessageSize > maximumMessageSize THEN FALSE
    ELSE IF mMaxMessageSize > mSendBufferSize THEN FALSE
    ELSE IF mMaxMessageSize > mReceiveBufferSize THEN FALSE
    ELSE TRUE

(***************************** locator functions ***************************)
\* Locators the locator functions are applied to: both kinds, the wildcard,
\* an address whose only non-zero octet is the last, interface, remote and
\* multicast addresses.
LocatorInputs ==
    [kind : Kinds,
     address : {AddrAny, AddrLoopback, AddrIfA, AddrRemote, AddrMcast},
     port : Ports]

\* Locator_t(uint32_t): what "return false" converts to.
LocatorFromPort(port) ==
    [kind |-> LOCATOR_KIND_UDPv4, address |-> Zero16, port |-> port]

\* UDPv6Transport::RemoteToMainLocal: mainLocal is built and zeroed, and
\* remote is what is returned.
RemoteToMainLocalCall(remote) ==
    IF ~IsLocatorSupported(remote) THEN LocatorFromPort(0)
    ELSE LET mainLocal == [remote EXCEPT !.address = Zero16]
         IN remote

\* IPFinder::info_IP::locator of an interface address.
InfoIPLocator(ip) ==
    [kind |-> LOCATOR_KIND_UDPv6, address |-> ip, port |-> 0]

\* Mutant: only the first octet is tested.
NormalizeLocatorCall_FirstOctet(locator) ==
    IF locator.address[1] = 0
    THEN [i \in DOMAIN LocalIP6s |->
            [InfoIPLocator(LocalIP6s[i]) EXCEPT !.kind = locator.kind,
                                                !.port = locator.port]]
    ELSE <<locator>>

\* UDPv6Transport::NormalizeLocator
NormalizeLocatorCall(locator) ==
    IF \A i \in 1..16 : locator.address[i] = 0
    THEN [i \in DOMAIN LocalIP6s |->
            [InfoIPLocator(LocalIP6s[i]) EXCEPT !.kind = locator.kind,
                                                !.port = locator.port]]
    ELSE <<locator>>

(***************************************************************************)
(* Threads, their calls and the two mutexes.                               *)
(***************************************************************************)
NoLocator == [kind |-> "none", address |-> Zero16, port |-> 0]
Threads == {"t1", "t2"}
\* The locals of a thread's call: the method and its arguments (loc, and
\* cap or len), the index of the interface bound last, the socket its read
\* is registered on and the state of that read, what the handler wrote, the
\* semaphore, the number of handler runs, the completion the handler was
\* run with, the writes of Send, the sockets a close cancelled and closed,
\* the groups joined, the socket OpenInputChannel created, the list a locator
\* function returned, and the result:
\* ret when the method returned, fault when an exception left it.
NoFrame == [op |-> "none", loc |-> NoLocator, cap |-> 0, sock |-> 0,
            read |-> "none", success |-> FALSE, receiveBufferSize |-> <<>>,
            remoteLocator |-> <<>>, receiveSemaphore |-> 0, handlerRuns |-> 0,
            completion |-> <<>>, len |-> 0, i |-> 0, writes |-> <<>>,
            closed |-> {}, joined |-> {}, opened |-> {}, list |-> <<>>,
            ret |-> FALSE, fault |-> FALSE]
NoOwner == [owner |-> "none", count |-> 0]

\* The state the constructor leaves, whatever the descriptor's sizes are.
Constructed ==
    /\ mGranularMode \in BOOLEAN
    /\ mInterfaceWhiteList \in WhiteLists
    /\ ioServiceThread = "null"
    /\ alive = TRUE
    /\ mOutputSockets = EmptyMap
    /\ mGranularOutputSockets = EmptyMap
    /\ mInputSockets = EmptyMap
    /\ nextSocket = 1
    /\ pc = [t \in Threads |-> "idle"]
    /\ frame = [t \in Threads |-> NoFrame]
    /\ mInputMapMutex = NoOwner
    /\ mOutputMapMutex = NoOwner
    /\ pendingReads = <<>>
    /\ readyHandlers = <<>>

\* Constructed from a descriptor that keeps the default sizes of
\* UDPv6TransportDescriptor's constructor.
Init ==
    /\ mMaxMessageSize = maximumMessageSize
    /\ mSendBufferSize = maximumUDPSocketSize
    /\ mReceiveBufferSize = maximumUDPSocketSize
    /\ Constructed

\* Constructed from a descriptor with any of the sizes.
InitSizes ==
    /\ mMaxMessageSize \in MessageSizes
    /\ mSendBufferSize \in BufferSizes
    /\ mReceiveBufferSize \in BufferSizes
    /\ Constructed

\* boost::unique_lock<boost::recursive_mutex> scopedLock(mInputMapMutex)
CanLock(t) == mInputMapMutex.owner \in {"none", t}
Locked(t) == [owner |-> t, count |-> mInputMapMutex.count + 1]
\* The scoped lock's destructor.
Unlocked ==
    IF mInputMapMutex.count <= 1 THEN NoOwner
    ELSE [mInputMapMutex EXCEPT !.count = @ - 1]

\* boost::unique_lock<boost::recursive_mutex> scopedLock(mOutputMapMutex)
CanLockOut(t) == mOutputMapMutex.owner \in {"none", t}
LockedOut(t) == [owner |-> t, count |-> mOutputMapMutex.count + 1]
UnlockedOut ==
    IF mOutputMapMutex.count <= 1 THEN NoOwner
    ELSE [mOutputMapMutex EXCEPT !.count = @ - 1]

\* The methods that create sockets.
OpenOps == {"OpenOutputChannel", "OpenInputChannel"}

\* A thread calls a method.
Invoke(t, op, locator, cap) ==
    /\ alive /\ pc[t] = "idle"
    /\ op \in OpenOps => nextSocket <= MaxSockets
    /\ frame' = [frame EXCEPT ![t] = [NoFrame EXCEPT !.op = op, !.loc = locator,
                                                      !.cap = cap]]
    /\ pc' = [pc EXCEPT ![t] = op]
    /\ UNCHANGED <<config, ioServiceThread, alive, registry, nextSocket,
                   mInputMapMutex, mOutputMapMutex, pendingReads,
                   readyHandlers>>

\* A thread calls Send with a buffer of len octets.
InvokeSend(t, locator, len) ==
    /\ alive /\ pc[t] = "idle"
    /\ frame' = [frame EXCEPT ![t] = [NoFrame EXCEPT !.op = "Send",
                                                      !.loc = locator,
                                                      !.len = len]]
    /\ pc' = [pc EXCEPT ![t] = "Send"]
    /\ UNCHANGED <<config, ioServiceThread, alive, registry, nextSocket,
                   mInputMapMutex, mOutputMapMutex, pendingReads,
                   readyHandlers>>

\* The caller takes the result of the call that returned.
Return(t) ==
    /\ pc[t] = "idle"
    /\ frame[t] # NoFrame
    /\ frame' = [frame EXCEPT ![t] = NoFrame]
    /\ UNCHANGED <<config, ioServiceThread, alive, registry, nextSocket, pc,
                   mInputMapMutex, mOutputMapMutex, pendingReads,
                   readyHandlers>>

\* A thread at label from takes mInputMapMutex and goes on at label to.
Acquire(t, from, to) ==
    /\ alive /\ pc[t] = from
    /\ CanLock(t)
    /\ mInputMapMutex' = Locked(t)
    /\ pc' = [pc EXCEPT ![t] = to]
    /\ UNCHANGED <<config, ioServiceThread, alive, registry, nextSocket,
                   frame, mOutputMapMutex, pendingReads, readyHandlers>>

\* A thread at label from takes mOutputMapMutex and goes on at label to.
AcquireOut(t, from, to) ==
    /\ alive /\ pc[t] = from
    /\ CanLockOut(t)
    /\ mOutputMapMutex' = LockedOut(t)
    /\ pc' = [pc EXCEPT ![t] = to]
    /\ UNCHANGED <<config, ioServiceThread, alive, registry, nextSocket,
                   frame, mInputMapMutex, pendingReads, readyHandlers>>

\* The thread returns ret from its method and releases mOutputMapMutex.
LeaveOut(t, ret) ==
    /\ frame' = [frame EXCEPT ![t].ret = ret]
    /\ mOutputMapMutex' = UnlockedOut
    /\ pc' = [pc EXCEPT ![t] = "idle"]

(************************ init, teardown, locators *************************)
\* UDPv6Transport::init. It takes no lock: when another thread is inside
\* init too, the two ioServiceThread.reset calls of line 84 race, and the
\* process either goes on or aborts on the double delete of the thread
\* object, in which case no call returns and no thread goes on.
init(t) ==
    /\ alive /\ pc[t] = "init"
    /\ \E aborts \in {FALSE, initCall /\ \E u \in Threads \ {t} : pc[u] = "init"} :
         IF aborts
         THEN /\ alive' = FALSE
              /\ ioServiceThread' = "aborted"
              /\ UNCHANGED <<pc, frame>>
         ELSE /\ alive' = alive
              /\ ioServiceThread' = IF initCall THEN "running"
                                    ELSE ioServiceThread
              /\ frame' = [frame EXCEPT ![t].ret = initCall]
              /\ pc' = [pc EXCEPT ![t] = "idle"]
    /\ UNCHANGED <<config, registry, nextSocket, mInputMapMutex,
                   mOutputMapMutex, pendingReads, readyHandlers>>

\* UDPv6Transport::~UDPv6Transport, run by thread t when no call is in
\* progress: it stops the service and joins the thread if there is one
\* (ret records that it did); the maps and their sockets go with the object.
Destructor(t) ==
    /\ alive
    /\ \A u \in Threads : pc[u] = "idle"
    /\ frame[t] = NoFrame
    /\ alive' = FALSE
    /\ ioServiceThread' = IF ioServiceThread # "null" THEN "joined" ELSE "null"
    /\ mOutputSockets' = EmptyMap
    /\ mGranularOutputSockets' = EmptyMap
    /\ mInputSockets' = EmptyMap
    /\ frame' = [frame EXCEPT ![t] = [NoFrame EXCEPT
                                        !.op = "destructor",
                                        !.ret = ioServiceThread # "null"]]
    /\ UNCHANGED <<config, nextSocket, pc, mInputMapMutex, mOutputMapMutex,
                   pendingReads, readyHandlers>>

\* UDPv6Transport::RemoteToMainLocal, called by a thread.
RemoteToMainLocal(t) ==
    /\ alive /\ pc[t] = "RemoteToMainLocal"
    /\ frame' = [frame EXCEPT
                   ![t].list = <<RemoteToMainLocalCall(frame[t].loc)>>]
    /\ pc' = [pc EXCEPT ![t] = "idle"]
    /\ UNCHANGED <<config, ioServiceThread, alive, registry, nextSocket,
                   mInputMapMutex, mOutputMapMutex, pendingReads,
                   readyHandlers>>

\* UDPv6Transport::NormalizeLocator, called by a thread.
NormalizeLocator(t) ==
    /\ alive /\ pc[t] = "NormalizeLocator"
    /\ frame' = [frame EXCEPT ![t].list = NormalizeLocatorCall(frame[t].loc)]
    /\ pc' = [pc EXCEPT ![t] = "idle"]
    /\ UNCHANGED <<config, ioServiceThread, alive, registry, nextSocket,
                   mInputMapMutex, mOutputMapMutex, pendingReads,
                   readyHandlers>>

(************************* input-channel methods ***************************)
\* IsInputChannelOpen, line 91.
IsInputChannelOpen_Lock(t) ==
    Acquire(t, "IsInputChannelOpen", "IsInputChannelOpen_locked")

\* IsInputChannelOpen, line 92, under the lock.
IsInputChannelOpen_Body(t) ==
    /\ alive /\ pc[t] = "IsInputChannelOpen_locked"
    /\ frame' = [frame EXCEPT ![t].ret = IsInputChannelOpen(frame[t].loc)]
    /\ mInputMapMutex' = Unlocked
    /\ pc' = [pc EXCEPT ![t] = "idle"]
    /\ UNCHANGED <<config, ioServiceThread, alive, registry, nextSocket,
                   mOutputMapMutex, pendingReads, readyHandlers>>

\* OpenInputChannel, line 126.
OpenInputChannel_Lock(t) ==
    Acquire(t, "OpenInputChannel", "OpenInputChannel_locked")

\* OpenInputChannel, lines 127-144, under the lock.
OpenInputChannel_Body(t) ==
    /\ alive /\ pc[t] = "OpenInputChannel_locked"
    /\ \E bindOk \in BOOLEAN, joinOk \in BOOLEAN :
         LET r == OpenInputChannelCall(mInputSockets, nextSocket, frame[t].loc,
                                       bindOk, joinOk)
         IN /\ mInputSockets' = r.inp
            /\ nextSocket' = r.next
            /\ frame' = [frame EXCEPT ![t].ret = r.ret, ![t].fault = r.fault,
                                      ![t].joined = r.joined,
                                      ![t].opened =
                                          Ids(r.inp) \ Ids(mInputSockets)]
    /\ mInputMapMutex' = Unlocked
    /\ pc' = [pc EXCEPT ![t] = "idle"]
    /\ UNCHANGED <<config, ioServiceThread, alive, mOutputSockets,
                   mGranularOutputSockets, mOutputMapMutex, pendingReads,
                   readyHandlers>>

\* CloseInputChannel, line 176.
CloseInputChannel_Lock(t) ==
    Acquire(t, "CloseInputChannel", "CloseInputChannel_locked")

\* socket.cancel() and socket.close(): every read registered on one of the
\* sockets completes with operation_aborted; the completions of reads, in
\* the order the reads were registered.
RECURSIVE Aborted(_, _)
Aborted(reads, closed) ==
    IF reads = <<>> THEN <<>>
    ELSE (IF Head(reads).sock \in closed
          THEN <<[thread |-> Head(reads).thread, error |-> TRUE, bytes |-> 0,
                  sender |-> Head(reads).sender]>>
          ELSE <<>>) \o Aborted(Tail(reads), closed)

\* CloseInputChannel, lines 177-186, under the lock.
CloseInputChannel_Body(t) ==
    /\ alive /\ pc[t] = "CloseInputChannel_locked"
    /\ LET r == CloseInputChannelCall(mInputSockets, frame[t].loc)
       IN /\ mInputSockets' = r.inp
          /\ readyHandlers' = readyHandlers \o Aborted(pendingReads, r.closed)
          /\ pendingReads' = SelectSeq(pendingReads,
                                       LAMBDA rd : rd.sock \notin r.closed)
          /\ frame' = [u \in Threads |->
                         IF u = t THEN [frame[t] EXCEPT !.ret = r.ret,
                                                        !.closed = r.closed]
                         ELSE IF frame[u].read = "pending"
                                 /\ frame[u].sock \in r.closed
                         THEN [frame[u] EXCEPT !.read = "cancelled"]
                         ELSE frame[u]]
    /\ mInputMapMutex' = Unlocked
    /\ pc' = [pc EXCEPT ![t] = "idle"]
    /\ UNCHANGED <<config, ioServiceThread, alive, mOutputSockets,
                   mGranularOutputSockets, nextSocket, mOutputMapMutex>>

\* Receive, line 377: IsInputChannelOpen takes the lock.
Receive_Check(t) == Acquire(t, "Receive", "Receive_checking")

\* Receive, lines 377-379: the test; IsInputChannelOpen releases the lock.
Receive_Checked(t) ==
    /\ alive /\ pc[t] = "Receive_checking"
    /\ mInputMapMutex' = Unlocked
    /\ IF ReceiveRejects(mInputSockets, frame[t].cap, frame[t].loc)
       THEN /\ frame' = [frame EXCEPT ![t].ret = FALSE]
            /\ pc' = [pc EXCEPT ![t] = "idle"]
       ELSE /\ frame' = frame
            /\ pc' = [pc EXCEPT ![t] = "Receive_unlocked"]
    /\ UNCHANGED <<config, ioServiceThread, alive, registry, nextSocket,
                   mOutputMapMutex, pendingReads, readyHandlers>>

\* Receive, line 404.
Receive_Lock(t) == Acquire(t, "Receive_unlocked", "Receive_locked")

\* Mutant: the read is registered and the mutex is kept.
Receive_Register_KeepsLock(t) ==
    /\ alive /\ pc[t] = "Receive_locked"
    /\ frame[t].loc.port \in DOMAIN mInputSockets
    /\ \E sender \in SenderEndpoints :
         pendingReads' = Append(pendingReads,
             [thread |-> t, sock |-> mInputSockets[frame[t].loc.port].id,
              sender |-> sender])
    /\ frame' = [frame EXCEPT
                   ![t].sock = mInputSockets[frame[t].loc.port].id,
                   ![t].read = "pending"]
    /\ pc' = [pc EXCEPT ![t] = "Receive_waiting"]
    /\ UNCHANGED <<config, ioServiceThread, alive, registry, nextSocket,
                   mInputMapMutex, mOutputMapMutex, readyHandlers>>

\* Receive, lines 406-410: mInputSockets.at(port) throws std::out_of_range
\* when the port has no entry; otherwise one read is registered on the
\* port's socket. The lock is released either way.
Receive_Register(t) ==
    /\ alive /\ pc[t] = "Receive_locked"
    /\ mInputMapMutex' = Unlocked
    /\ IF frame[t].loc.port \notin DOMAIN mInputSockets
       THEN /\ frame' = [frame EXCEPT ![t].fault = TRUE]
            /\ pc' = [pc EXCEPT ![t] = "idle"]
            /\ pendingReads' = pendingReads
       ELSE /\ \E sender \in SenderEndpoints :
                 pendingReads' = Append(pendingReads,
                     [thread |-> t, sock |-> mInputSockets[frame[t].loc.port].id,
                      sender |-> sender])
            /\ frame' = [frame EXCEPT
                           ![t].sock = mInputSockets[frame[t].loc.port].id,
                           ![t].read = "pending"]
            /\ pc' = [pc EXCEPT ![t] = "Receive_waiting"]
    /\ UNCHANGED <<config, ioServiceThread, alive, registry, nextSocket,
                   mOutputMapMutex, readyHandlers>>

\* Receive, lines 412-416: receiveSemaphore.wait() and the return.
Receive_Wait(t) ==
    /\ alive /\ pc[t] = "Receive_waiting"
    /\ frame[t].receiveSemaphore > 0
    /\ frame' = [frame EXCEPT
                   ![t].receiveSemaphore = @ - 1,
                   ![t].ret = frame[t].success,
                   ![t].remoteLocator =
                       IF frame[t].success
                       THEN <<EndpointToLocator(frame[t].completion[1].sender)>>
                       ELSE @]
    /\ pc' = [pc EXCEPT ![t] = "idle"]
    /\ UNCHANGED <<config, ioServiceThread, alive, registry, nextSocket,
                   mInputMapMutex, mOutputMapMutex, pendingReads,
                   readyHandlers>>

\* The io_service thread finds the oldest read of a socket complete: a
\* datagram arrived, or the receive failed.
ReadCompletes ==
    /\ ioServiceThread = "running"
    /\ \E i \in DOMAIN pendingReads, error \in BOOLEAN, bytes \in DatagramSizes :
         /\ \A j \in 1..(i - 1) : pendingReads[j].sock # pendingReads[i].sock
         /\ readyHandlers' = Append(readyHandlers,
                [thread |-> pendingReads[i].thread, error |-> error,
                 bytes |-> IF error THEN 0 ELSE bytes,
                 sender |-> pendingReads[i].sender])
         /\ pendingReads' = SubSeq(pendingReads, 1, i - 1)
                              \o SubSeq(pendingReads, i + 1, Len(pendingReads))
         /\ frame' = [frame EXCEPT ![pendingReads[i].thread].read = "completed"]
    /\ UNCHANGED <<config, ioServiceThread, alive, registry, nextSocket,
                   pc, mInputMapMutex, mOutputMapMutex>>

\* The io_service thread (mService.run(), line 82) runs the next handler.
RunHandler ==
    /\ ioServiceThread = "running"
    /\ readyHandlers # <<>>
    /\ LET c == Head(readyHandlers)
           h == ReceiveHandler(c.error, c.bytes)
       IN frame' = [frame EXCEPT
                      ![c.thread].receiveBufferSize = <<h.receiveBufferSize>>,
                      ![c.thread].success = h.success,
                      ![c.thread].receiveSemaphore = @ + h.post,
                      ![c.thread].completion = <<c>>,
                      ![c.thread].handlerRuns = @ + 1]
    /\ readyHandlers' = Tail(readyHandlers)
    /\ UNCHANGED <<config, ioServiceThread, alive, registry, nextSocket,
                   pc, mInputMapMutex, mOutputMapMutex, pendingReads>>

(************************* output-channel methods **************************)
\* IsOutputChannelOpen, line 97.
IsOutputChannelOpen_Lock(t) ==
    AcquireOut(t, "IsOutputChannelOpen", "IsOutputChannelOpen_locked")

\* IsOutputChannelOpen, lines 98-104, under the lock.
IsOutputChannelOpen_Body(t) ==
    /\ alive /\ pc[t] = "IsOutputChannelOpen_locked"
    /\ LeaveOut(t, IsOutputChannelOpen(frame[t].loc))
    /\ UNCHANGED <<config, ioServiceThread, alive, registry, nextSocket,
                   mInputMapMutex, pendingReads, readyHandlers>>

\* OpenOutputChannel, line 109: IsOutputChannelOpen takes the lock.
OpenOutputChannel_Check(t) ==
    AcquireOut(t, "OpenOutputChannel", "OpenOutputChannel_checking")

\* OpenOutputChannel, lines 109-111: the test; the lock is released.
OpenOutputChannel_Checked(t) ==
    /\ alive /\ pc[t] = "OpenOutputChannel_checking"
    /\ mOutputMapMutex' = UnlockedOut
    /\ IF IsOutputChannelOpen(frame[t].loc) \/ ~IsLocatorSupported(frame[t].loc)
       THEN /\ frame' = [frame EXCEPT ![t].ret = FALSE]
            /\ pc' = [pc EXCEPT ![t] = "idle"]
       ELSE /\ frame' = frame
            /\ pc' = [pc EXCEPT ![t] = "OpenOutputChannel_unlocked"]
    /\ UNCHANGED <<config, ioServiceThread, alive, registry, nextSocket,
                   mInputMapMutex, pendingReads, readyHandlers>>

\* Line 213 (OpenAndBindOutputSockets) or 247 (...GranularOutputSocket).
OpenOutputChannel_Lock(t) ==
    AcquireOut(t, "OpenOutputChannel_unlocked", "OpenOutputChannel_locked")

\* OpenAndBindGranularOutputSocket, lines 248-265, under the lock.
OpenOutputChannel_BindGranular(t) ==
    /\ alive /\ pc[t] = "OpenOutputChannel_locked"
    /\ mGranularMode
    /\ \E ok \in BOOLEAN :
         LET r == OpenAndBindGranularOutputSocket(
                      mGranularOutputSockets, nextSocket, frame[t].loc, ok)
         IN /\ mGranularOutputSockets' = r.gran
            /\ nextSocket' = r.next
            /\ LeaveOut(t, r.ret)
    /\ UNCHANGED <<config, ioServiceThread, alive, mOutputSockets,
                   mInputSockets, mInputMapMutex, pendingReads,
                   readyHandlers>>

\* OpenAndBindOutputSockets with no whitelist, lines 219-220 and 235-242.
OpenOutputChannel_BindAny(t) ==
    /\ alive /\ pc[t] = "OpenOutputChannel_locked"
    /\ ~mGranularMode /\ mInterfaceWhiteList = {}
    /\ \E ok \in BOOLEAN :
         LET r == BindOutputSocket(mOutputSockets, nextSocket,
                                   frame[t].loc.port, AddrAny, ok)
         IN /\ mOutputSockets' = r.out
            /\ nextSocket' = r.next
            /\ LeaveOut(t, r.ret)
    /\ UNCHANGED <<config, ioServiceThread, alive, mGranularOutputSockets,
                   mInputSockets, mInputMapMutex, pendingReads,
                   readyHandlers>>

\* One turn of the loop of lines 225-230 that binds a socket: the next
\* allowed interface is bound and pushed, or its bind throws and the catch
\* block erases the port and returns false. The lock stays held between
\* turns.
OpenOutputChannel_BindNext(t) ==
    /\ alive /\ pc[t] = "OpenOutputChannel_locked"
    /\ ~mGranularMode /\ mInterfaceWhiteList # {}
    /\ NextAllowed(frame[t].i) # 0
    /\ \E ok \in BOOLEAN :
         LET j == NextAllowed(frame[t].i)
             r == BindOutputSocket(mOutputSockets, nextSocket,
                                   frame[t].loc.port, LocalIP6s[j], ok)
         IN /\ mOutputSockets' = r.out
            /\ nextSocket' = r.next
            /\ IF r.ret
               THEN /\ frame' = [frame EXCEPT ![t].i = j]
                    /\ UNCHANGED <<pc, mOutputMapMutex>>
               ELSE LeaveOut(t, FALSE)
    /\ UNCHANGED <<config, ioServiceThread, alive, mGranularOutputSockets,
                   mInputSockets, mInputMapMutex, pendingReads,
                   readyHandlers>>

\* The loop is over: line 242 returns true.
OpenOutputChannel_BindDone(t) ==
    /\ alive /\ pc[t] = "OpenOutputChannel_locked"
    /\ ~mGranularMode /\ mInterfaceWhiteList # {}
    /\ NextAllowed(frame[t].i) = 0
    /\ LeaveOut(t, TRUE)
    /\ UNCHANGED <<config, ioServiceThread, alive, registry, nextSocket,
                   mInputMapMutex, pendingReads, readyHandlers>>

\* CloseOutputChannel, line 148.
CloseOutputChannel_Lock(t) ==
    AcquireOut(t, "CloseOutputChannel", "CloseOutputChannel_locked")

\* CloseOutputChannel, lines 149-171, under the lock.
CloseOutputChannel_Body(t) ==
    /\ alive /\ pc[t] = "CloseOutputChannel_locked"
    /\ LET r == CloseOutputChannelCall(mOutputSockets, mGranularOutputSockets,
                                       frame[t].loc)
       IN /\ mOutputSockets' = r.out
          /\ mGranularOutputSockets' = r.gran
          /\ frame' = [frame EXCEPT ![t].ret = r.ret, ![t].closed = r.closed]
          /\ mOutputMapMutex' = UnlockedOut
          /\ pc' = [pc EXCEPT ![t] = "idle"]
    /\ UNCHANGED <<config, ioServiceThread, alive, mInputSockets, nextSocket,
                   mInputMapMutex, pendingReads, readyHandlers>>

\* Send, line 340.
Send_Lock(t) == AcquireOut(t, "Send", "Send_locked")

\* Send, lines 341-359, under the lock.
Send_Body(t) ==
    /\ alive /\ pc[t] = "Send_locked"
    /\ \E remoteLocator \in RemoteLocators,
          okIds \in SUBSET SendTargets(mOutputSockets, mGranularOutputSockets,
                                       frame[t].len, frame[t].loc) :
         LET r == SendCall(mOutputSockets, mGranularOutputSockets,
                           frame[t].len, frame[t].loc, remoteLocator, okIds)
         IN /\ frame' = [frame EXCEPT ![t].ret = r.ret, ![t].writes = r.writes]
            /\ mOutputMapMutex' = UnlockedOut
            /\ pc' = [pc EXCEPT ![t] = "idle"]
    /\ UNCHANGED <<config, ioServiceThread, alive, registry, nextSocket,
                   mInputMapMutex, pendingReads, readyHandlers>>

(***************************************************************************)
(* The steps of a thread inside a method.                                  *)
(***************************************************************************)
\* Inside init or an input-channel method.
Proceed(t) ==
    \/ init(t)
    \/ OpenInputChannel_Lock(t)
    \/ OpenInputChannel_Body(t)
    \/ CloseInputChannel_Lock(t)
    \/ CloseInputChannel_Body(t)
    \/ Receive_Check(t)
    \/ Receive_Checked(t)
    \/ Receive_Lock(t)
    \/ Receive_Register(t)
    \/ Receive_Wait(t)

\* Inside an output-channel method.
ProceedOut(t) ==
    \/ OpenOutputChannel_Check(t)
    \/ OpenOutputChannel_Checked(t)
    \/ OpenOutputChannel_Lock(t)
    \/ OpenOutputChannel_BindGranular(t)
    \/ OpenOutputChannel_BindAny(t)
    \/ OpenOutputChannel_BindNext(t)
    \/ OpenOutputChannel_BindDone(t)
    \/ CloseOutputChannel_Lock(t)
    \/ CloseOutputChannel_Body(t)
    \/ Send_Lock(t)
    \/ Send_Body(t)
    \/ IsOutputChannelOpen_Lock(t)
    \/ IsOutputChannelOpen_Body(t)

ProceedQuery(t) == IsInputChannelOpen_Lock(t) \/ IsInputChannelOpen_Body(t)

\* Any step of thread t inside a method.
Step(t) == Proceed(t) \/ ProceedOut(t) \/ ProceedQuery(t)

(***************************************************************************)
(* Spec: one caller thread makes one call after the other, of any method   *)
(* and with any locator, on a transport of any mode and whitelist.         *)
(***************************************************************************)
Caller == "t1"
\* The methods that take a locator and nothing else.
LocatorOps == {"OpenOutputChannel", "CloseOutputChannel", "OpenInputChannel",
               "CloseInputChannel", "IsOutputChannelOpen",
               "IsInputChannelOpen"}

Next ==
    \/ Return(Caller)
    \/ frame[Caller] = NoFrame /\ Invoke(Caller, "init", NoLocator, 0)
    \/ Destructor(Caller)
    \/ \E op \in LocatorOps, locator \in Locators :
         frame[Caller] = NoFrame /\ Invoke(Caller, op, locator, 0)
    \/ \E cap \in ReceiveCapacities, locator \in Locators :
         frame[Caller] = NoFrame /\ Invoke(Caller, "Receive", locator, cap)
    \/ \E len \in SendLengths, locator \in Locators :
         frame[Caller] = NoFrame /\ InvokeSend(Caller, locator, len)
    \/ Step(Caller)
    \/ ReadCompletes
    \/ RunHandler

Spec == Init /\ [][Next]_vars

(***************************************************************************)
(* SpecLocators: the locator functions, called by one thread.              *)
(***************************************************************************)
NextLocators ==
    \/ \E op \in {"RemoteToMainLocal", "NormalizeLocator"},
          locator \in LocatorInputs :
         frame[Caller] = NoFrame /\ Invoke(Caller, op, locator, 0)
    \/ RemoteToMainLocal(Caller)
    \/ NormalizeLocator(Caller)
    \/ Return(Caller)

SpecLocators == Init /\ [][NextLocators]_vars

(***************************************************************************)
(* SpecLifecycle: construction, init and teardown over every               *)
(* configuration of sizes.                                                 *)
(***************************************************************************)
NextLifecycle ==
    \/ frame[Caller] = NoFrame /\ Invoke(Caller, "init", NoLocator, 0)
    \/ init(Caller)
    \/ Destructor(Caller)
    \/ Return(Caller)

SpecLifecycle == InitSizes /\ [][NextLifecycle]_vars

(***************************************************************************)
(* SpecMT: two caller threads in the input-channel methods and in init,    *)
(* and the io_service thread.                                              *)
(***************************************************************************)
\* Locators and capacities the threads call with.
MTLocators ==
    {[kind |-> LOCATOR_KIND_UDPv6, address |-> AddrMcast, port |-> 7400],
     [kind |-> LOCATOR_KIND_UDPv6, address |-> AddrAny, port |-> 72936]}
MTOps == {"OpenInputChannel", "CloseInputChannel", "Receive"}

NextMT ==
    \/ \E t \in Threads, op \in MTOps, locator \in MTLocators,
          cap \in ReceiveCapacities :
         Invoke(t, op, locator, IF op = "Receive" THEN cap ELSE 0)
    \/ \E t \in Threads : Invoke(t, "init", NoLocator, 0)
    \/ \E t \in Threads : Proceed(t)
    \/ ReadCompletes
    \/ RunHandler

\* The threads run on a transport constructed from the default descriptor
\* (lines 43-48: no granular mode, an empty whitelist).
\* A thread inside a method goes on running, and the io_service thread runs
\* the handlers that are ready; nothing obliges a caller to make a call or a
\* datagram to arrive.
InitMT == Init /\ ~mGranularMode /\ mInterfaceWhiteList = {}

SpecMT ==
    /\ InitMT
    /\ [][NextMT]_vars
    /\ WF_vars(RunHandler)
    /\ \A t \in Threads : WF_vars(Proceed(t))

(***************************************************************************)
(* SpecMTOut: two caller threads in the output-channel methods, on a       *)
(* transport of any mode and whitelist.                                    *)
(***************************************************************************)
MTOutLocators ==
    {[kind |-> LOCATOR_KIND_UDPv6, address |-> AddrIfA, port |-> 7400],
     [kind |-> LOCATOR_KIND_UDPv6, address |-> AddrIfA, port |-> 72936]}
MTOutOps == {"OpenOutputChannel", "CloseOutputChannel", "Send",
             "IsOutputChannelOpen"}
MTSendLengths == {maximumUDPSocketSize}

NextMTOut ==
    \/ \E t \in Threads, op \in MTOutOps \ {"Send"}, locator \in MTOutLocators :
         Invoke(t, op, locator, 0)
    \/ \E t \in Threads, locator \in MTOutLocators, len \in MTSendLengths :
         InvokeSend(t, locator, len)
    \/ \E t \in Threads : ProceedOut(t)

SpecMTOut ==
    /\ Init
    /\ [][NextMTOut]_vars
    /\ \A t \in Threads : WF_vars(ProceedOut(t))

(***************************************************************************)
(* SpecMTAll: the threads call the methods of both directions, for one     *)
(* port, and the queries of both maps.                                     *)
(***************************************************************************)
MTAllLocators ==
    {[kind |-> LOCATOR_KIND_UDPv6, address |-> AddrMcast, port |-> 7400]}
MTAllCapacities == {maximumUDPSocketSize}
MTAllOps == MTOps \cup (MTOutOps \ {"Send"}) \cup {"IsInputChannelOpen"}

NextMTAll ==
    \/ \E t \in Threads, op \in MTAllOps, locator \in MTAllLocators,
          cap \in MTAllCapacities :
         Invoke(t, op, locator, IF op = "Receive" THEN cap ELSE 0)
    \/ \E t \in Threads, locator \in MTAllLocators, len \in MTSendLengths :
         InvokeSend(t, locator, len)
    \/ \E t \in Threads : Invoke(t, "init", NoLocator, 0)
    \/ \E t \in Threads : Step(t)
    \/ ReadCompletes
    \/ RunHandler

\* The configurations the threads run on: shared mode without a whitelist,
\* shared mode over two whitelisted interfaces, granular mode.
InitMTAll ==
    /\ Init
    /\ mInterfaceWhiteList \in {{}, {AddrIfA, AddrIfB}}
    /\ mGranularMode => mInterfaceWhiteList = {}

SpecMTAll ==
    /\ InitMTAll
    /\ [][NextMTAll]_vars
    /\ WF_vars(RunHandler)
    /\ \A t \in Threads : WF_vars(Step(t))

(***************************************************************************)
(* Properties. Their hypotheses are written over the maps and over what    *)
(* the threads' frames record, not with the operators of the model.        *)
(***************************************************************************)
ChannelOps == {"OpenOutputChannel", "CloseOutputChannel", "OpenInputChannel",
               "CloseInputChannel", "IsOutputChannelOpen",
               "IsInputChannelOpen", "Send", "Receive"}
ReturnedFalse(c) == ~c.fault /\ c.ret = FALSE
ReturnedTrue(c) == ~c.fault /\ c.ret = TRUE
\* Thread t has left a call of method op, and leaves its call in this step.
Left(t, op) == pc[t] = "idle" /\ frame[t].op = op
Leaves(t) == pc[t] # "idle" /\ pc'[t] = "idle"
\* The output channel of locator l is registered in the maps outS / granS.
OutKeyIn(outS, granS, l) ==
    /\ l.kind = LOCATOR_KIND_UDPv6
    /\ IF mGranularMode THEN l \in DOMAIN granS ELSE l.port \in DOMAIN outS
\* The sockets registered under l's key, in order.
OutSocketsIn(outS, granS, l) ==
    IF mGranularMode THEN <<granS[l]>> ELSE outS[l.port]
InKeyIn(inS, l) == l.kind = LOCATOR_KIND_UDPv6 /\ l.port \in DOMAIN inS
\* Map m without its entry for key k, if it has one.
Without(m, k) == [x \in (DOMAIN m) \ {k} |-> m[x]]

\* C1: a call of OpenOutputChannel, CloseOutputChannel, OpenInputChannel,
\* CloseInputChannel, IsOutputChannelOpen, IsInputChannelOpen, Send or
\* Receive with a locator of a foreign kind changes none of the three maps
\* at any of its steps and returns false, having written to, closed, joined
\* and read from no socket.
C1_ForeignKindRejected ==
    [][\A t \in Threads :
         (/\ pc[t] # "idle"
          /\ frame[t].op \in ChannelOps
          /\ frame[t].loc.kind # LOCATOR_KIND_UDPv6)
           => /\ registry' = registry
              /\ pendingReads' = pendingReads
              /\ Leaves(t)
                   => /\ ReturnedFalse(frame'[t])
                      /\ frame'[t].writes = <<>> /\ frame'[t].closed = {}
                      /\ frame'[t].joined = {} /\ frame'[t].read = "none"]_vars

\* A close with a foreign-kind locator whose port has an open input channel.
C1_Witness ==
    \E t \in Threads :
       /\ Left(t, "CloseInputChannel")
       /\ frame[t].loc.kind = LOCATOR_KIND_UDPv4
       /\ frame[t].loc.port \in DOMAIN mInputSockets
       /\ ReturnedFalse(frame[t])

\* C2: opening a channel that is already open returns false and keeps the
\* sockets: the output maps are unchanged, and the input port keeps the same
\* socket.
C2_OpenOfOpenChannelRejected ==
    [][\A t \in Threads :
         /\ (/\ pc[t] = "OpenOutputChannel_checking"
             /\ pc'[t] # pc[t]
             /\ OutKeyIn(mOutputSockets, mGranularOutputSockets, frame[t].loc))
              => (/\ pc'[t] = "idle"
                  /\ ReturnedFalse(frame'[t])
                  /\ mOutputSockets' = mOutputSockets
                  /\ mGranularOutputSockets' = mGranularOutputSockets)
         /\ (/\ pc[t] = "OpenInputChannel_locked"
             /\ pc'[t] # pc[t]
             /\ InKeyIn(mInputSockets, frame[t].loc))
              => (/\ ReturnedFalse(frame'[t])
                  /\ DOMAIN mInputSockets' = DOMAIN mInputSockets
                  /\ mInputSockets'[frame[t].loc.port].id
                         = mInputSockets[frame[t].loc.port].id)]_vars

\* C3: closing a channel that is not open returns false and changes no map;
\* closing an open one returns true, cancels and closes exactly the sockets
\* registered under the key, erases the entry and nothing else, so that the
\* channel is not open afterwards.
C3_Close ==
    [][\A t \in Threads :
         /\ (pc[t] = "CloseOutputChannel_locked" /\ pc'[t] # pc[t]) =>
              /\ pc'[t] = "idle"
              /\ IF ~OutKeyIn(mOutputSockets, mGranularOutputSockets,
                              frame[t].loc)
                 THEN ReturnedFalse(frame'[t]) /\ registry' = registry
                      /\ frame'[t].closed = {}
                 ELSE /\ ReturnedTrue(frame'[t])
                      /\ frame'[t].closed
                           = Ids(OutSocketsIn(mOutputSockets,
                                     mGranularOutputSockets, frame[t].loc))
                      /\ ~OutKeyIn(mOutputSockets', mGranularOutputSockets',
                                   frame[t].loc)
                      /\ ~OutputOpenIn(mOutputSockets', mGranularOutputSockets',
                                       frame[t].loc)
                      /\ mInputSockets' = mInputSockets
                      /\ IF mGranularMode
                         THEN /\ mOutputSockets' = mOutputSockets
                              /\ mGranularOutputSockets'
                                   = Without(mGranularOutputSockets, frame[t].loc)
                         ELSE /\ mGranularOutputSockets' = mGranularOutputSockets
                              /\ mOutputSockets'
                                   = Without(mOutputSockets, frame[t].loc.port)
         /\ (pc[t] = "CloseInputChannel_locked" /\ pc'[t] # pc[t]) =>
              /\ pc'[t] = "idle"
              /\ IF ~InKeyIn(mInputSockets, frame[t].loc)
                 THEN ReturnedFalse(frame'[t]) /\ registry' = registry
                      /\ frame'[t].closed = {}
                 ELSE /\ ReturnedTrue(frame'[t])
                      /\ frame'[t].closed = {mInputSockets[frame[t].loc.port].id}
                      /\ ~InputOpenIn(mInputSockets', frame[t].loc)
                      /\ mInputSockets'
                           = Without(mInputSockets, frame[t].loc.port)
                      /\ mOutputSockets' = mOutputSockets
                      /\ mGranularOutputSockets' = mGranularOutputSockets]_vars

\* A close that cancelled and closed two sockets of one port.
C3_Witness ==
    \E t \in Threads :
       /\ Left(t, "CloseOutputChannel")
       /\ ReturnedTrue(frame[t])
       /\ Cardinality(frame[t].closed) = 2
       /\ ~IsOutputChannelOpen(frame[t].loc)

\* The addresses of a sequence of sockets, in order.
AddrsOf(socks) == [i \in DOMAIN socks |-> socks[i].addr]
\* The local interface addresses the whitelist names, in enumeration order.
WhiteListedLocal ==
    SelectSeq(LocalIP6s, LAMBDA a : a = AddrAny \/ a \in mInterfaceWhiteList)
\* The sockets registered under a port in shared mode (none without an entry).
SharedSockets(port) ==
    IF port \in DOMAIN mOutputSockets THEN mOutputSockets[port] ELSE <<>>

\* C5: in shared mode, when OpenOutputChannel has returned true for port P,
\* the sockets under P are one wildcard-bound socket when the whitelist is
\* empty, and otherwise one socket per whitelisted local interface address,
\* in enumeration order and for no other address; all are bound to P and
\* are distinct sockets.
C5_SharedOpenSockets ==
    \A t \in Threads :
       (Left(t, "OpenOutputChannel") /\ ReturnedTrue(frame[t])
        /\ ~mGranularMode) =>
           LET socks == SharedSockets(frame[t].loc.port)
           IN /\ IF mInterfaceWhiteList = {}
                 THEN AddrsOf(socks) = <<AddrAny>>
                 ELSE AddrsOf(socks) = WhiteListedLocal
              /\ mInterfaceWhiteList = {AddrIfA, AddrIfB} => Len(socks) = 2
              /\ \A i \in DOMAIN socks :
                   socks[i].port = frame[t].loc.port % PortModulus
              /\ Cardinality(Ids(socks)) = Len(socks)

\* A successful open that bound the two whitelisted interfaces.
C5_Witness ==
    \E t \in Threads :
       /\ Left(t, "OpenOutputChannel") /\ ReturnedTrue(frame[t])
       /\ ~mGranularMode
       /\ mInterfaceWhiteList = {AddrIfA, AddrIfB}
       /\ AddrsOf(SharedSockets(frame[t].loc.port)) = <<AddrIfA, AddrIfB>>

\* C6: a Send on an open output channel with a length within the send buffer
\* size writes once to every socket of the channel, in order, whatever the
\* earlier writes did, and returns true exactly when one write succeeded.
C6_SendFanOut ==
    \A t \in Threads :
       (/\ Left(t, "Send")
        /\ OutKeyIn(mOutputSockets, mGranularOutputSockets, frame[t].loc)
        /\ frame[t].len <= mSendBufferSize) =>
           LET socks == OutSocketsIn(mOutputSockets, mGranularOutputSockets,
                                     frame[t].loc)
               writes == frame[t].writes
           IN /\ ~frame[t].fault
              /\ [i \in DOMAIN writes |-> writes[i].sock]
                   = [i \in DOMAIN socks |-> socks[i].id]
              /\ frame[t].ret = (\E i \in DOMAIN writes : writes[i].ok)

\* A Send whose first write failed and whose second succeeded.
C6_Witness ==
    \E t \in Threads :
       /\ Left(t, "Send") /\ ReturnedTrue(frame[t])
       /\ Len(frame[t].writes) = 2
       /\ ~frame[t].writes[1].ok /\ frame[t].writes[2].ok

\* C7: Send changes no map at any of its steps; it returns false and writes
\* to no socket when the channel of the local locator is not open or the
\* length exceeds the send buffer size; a length equal to the send buffer
\* size is written.
C7_SendRejects ==
    [][\A t \in Threads :
         /\ (pc[t] # "idle" /\ frame[t].op = "Send") => registry' = registry
         /\ (pc[t] = "Send_locked" /\ pc'[t] # pc[t]) =>
              /\ pc'[t] = "idle"
              /\ (\/ ~OutKeyIn(mOutputSockets, mGranularOutputSockets,
                               frame[t].loc)
                  \/ frame[t].len > mSendBufferSize)
                 => (ReturnedFalse(frame'[t]) /\ frame'[t].writes = <<>>)
              /\ (/\ OutKeyIn(mOutputSockets, mGranularOutputSockets,
                              frame[t].loc)
                  /\ frame[t].len = mSendBufferSize)
                 => frame'[t].writes # <<>>]_vars

\* A Send on an open channel rejected for its length alone.
C7_Witness ==
    \E t \in Threads :
       /\ Left(t, "Send") /\ ReturnedFalse(frame[t])
       /\ frame[t].writes = <<>>
       /\ OutKeyIn(mOutputSockets, mGranularOutputSockets, frame[t].loc)
       /\ frame[t].len = mSendBufferSize + 1

\* C8: in granular mode no step of OpenOutputChannel or CloseOutputChannel
\* of a locator changes another locator's entry: whether it is open and
\* which socket it holds.
C8_GranularIndependence ==
    [][\A t \in Threads :
         (/\ mGranularMode
          /\ pc[t] # "idle"
          /\ frame[t].op \in {"OpenOutputChannel", "CloseOutputChannel"})
           => /\ mOutputSockets' = mOutputSockets
              /\ \A b \in Locators :
                   b # frame[t].loc =>
                     /\ (b \in DOMAIN mGranularOutputSockets')
                          = (b \in DOMAIN mGranularOutputSockets)
                     /\ b \in DOMAIN mGranularOutputSockets
                          => mGranularOutputSockets'[b]
                               = mGranularOutputSockets[b]]_vars

\* One of two open locators of the same port was closed, the other stays.
C8_Witness ==
    \E t \in Threads :
       /\ mGranularMode
       /\ Left(t, "CloseOutputChannel") /\ ReturnedTrue(frame[t])
       /\ \E b \in DOMAIN mGranularOutputSockets :
            b.port = frame[t].loc.port /\ b.address # frame[t].loc.address

\* C9: OpenInputChannel of a multicast locator does not fail with a fault,
\* leaves the port with its one socket joined to the group, and keeps the
\* socket the port had.
C9_MulticastJoin ==
    [][\A t \in Threads :
         (/\ pc[t] = "OpenInputChannel_locked"
          /\ pc'[t] # pc[t]
          /\ frame[t].loc.kind = LOCATOR_KIND_UDPv6
          /\ frame[t].loc.address[1] = MulticastPrefix)
           => /\ ~frame'[t].fault
              /\ frame[t].loc.port \in DOMAIN mInputSockets'
                   => frame[t].loc.address
                        \in mInputSockets'[frame[t].loc.port].groups
              /\ frame[t].loc.port \in DOMAIN mInputSockets
                   => /\ DOMAIN mInputSockets' = DOMAIN mInputSockets
                      /\ mInputSockets'[frame[t].loc.port].id
                           = mInputSockets[frame[t].loc.port].id]_vars

\* C10: init returns true, and the io_service thread runs, exactly when
\* maxMessageSize is at most 65500, sendBufferSize and receiveBufferSize;
\* otherwise no thread was started and the destructor stops and joins none.
ConfigValid ==
    /\ mMaxMessageSize <= maximumMessageSize
    /\ mMaxMessageSize <= mSendBufferSize
    /\ mMaxMessageSize <= mReceiveBufferSize
C10_InitValidates ==
    \A t \in Threads :
       /\ Left(t, "init") =>
            /\ ReturnedTrue(frame[t]) = ConfigValid
            /\ (ioServiceThread = "running") = ConfigValid
       /\ ~ConfigValid => ioServiceThread = "null"
       /\ (frame[t].op = "destructor" /\ ~ConfigValid) => ~frame[t].ret

\* init refused a configuration whose only fault is the receive buffer.
C10_Witness ==
    \E t \in Threads :
       /\ Left(t, "init") /\ ReturnedFalse(frame[t])
       /\ ioServiceThread = "null"
       /\ mMaxMessageSize <= maximumMessageSize
       /\ mMaxMessageSize <= mSendBufferSize
       /\ mMaxMessageSize > mReceiveBufferSize

\* C4: a read that is pending when its socket leaves the input map is
\* cancelled, and once the io_service thread runs, the Receive waiting for a
\* cancelled read returns false with a byte count of zero after exactly one
\* run of its handler.
C4_CloseUnblocksReceive ==
    /\ [][\A t \in Threads :
            (/\ frame[t].read = "pending"
             /\ \A p \in DOMAIN mInputSockets' :
                  mInputSockets'[p].id # frame[t].sock)
              => frame'[t].read = "cancelled"]_vars
    /\ \A t \in Threads :
         (/\ pc[t] = "Receive_waiting"
          /\ frame[t].read = "cancelled"
          /\ ioServiceThread = "running")
           ~> (/\ pc[t] = "idle"
               /\ frame[t].op = "Receive"
               /\ ReturnedFalse(frame[t])
               /\ frame[t].receiveBufferSize = <<0>>
               /\ frame[t].handlerRuns = 1)

\* A Receive that returned false after another thread closed its channel.
C4_Witness ==
    \E t \in Threads :
       /\ pc[t] = "idle"
       /\ frame[t].op = "Receive"
       /\ frame[t].read = "cancelled"
       /\ ReturnedFalse(frame[t])
       /\ frame[t].receiveBufferSize = <<0>>
       /\ frame[t].handlerRuns = 1
       /\ frame[t].loc.port \notin DOMAIN mInputSockets

\* C11: RemoteToMainLocal of a UDPv6 locator R returns a locator with R's
\* kind and port and an all-zero address.
C11_RemoteToMainLocal ==
    \A t \in Threads :
       (Left(t, "RemoteToMainLocal") /\ frame[t].loc.kind = LOCATOR_KIND_UDPv6)
         => frame[t].list = <<[kind |-> frame[t].loc.kind, address |-> Zero16,
                               port |-> frame[t].loc.port]>>

\* C12: NormalizeLocator of a locator whose 16 address octets are zero
\* returns one locator per local IPv6 interface address, with the input's
\* kind and port and that interface's address; of any other locator it
\* returns the list holding just the input.
C12_NormalizeLocator ==
    \A t \in Threads :
       Left(t, "NormalizeLocator")
         => IF frame[t].loc.address = Zero16
            THEN /\ Len(frame[t].list) = Len(LocalIP6s)
                 /\ \A i \in DOMAIN LocalIP6s :
                      frame[t].list[i] = [kind |-> frame[t].loc.kind,
                                          address |-> LocalIP6s[i],
                                          port |-> frame[t].loc.port]
            ELSE frame[t].list = <<frame[t].loc>>

\* NormalizeLocator expanded a UDPv6 wildcard into the interfaces' locators.
C12_Witness ==
    \E t \in Threads :
       /\ Left(t, "NormalizeLocator")
       /\ frame[t].loc.kind = LOCATOR_KIND_UDPv6
       /\ frame[t].loc.address = Zero16
       /\ Len(frame[t].list) = Len(LocalIP6s)
       /\ frame[t].list[2].address = AddrIfA

\* C13: a Receive that finds the channel not open or the capacity below
\* mReceiveBufferSize returns false at once and registers no read; any
\* other Receive registers exactly one read on the port's socket and
\* returns after exactly one run of its handler, true with the bytes
\* transferred and the sender's address and port if the read succeeded,
\* false with a byte count of zero if it failed or was cancelled.
C13_ReceiveContract ==
    [][\A t \in Threads :
         LET f == frame'[t]
             rejected == \/ ~InKeyIn(mInputSockets, frame[t].loc)
                         \/ frame[t].cap < mReceiveBufferSize
         IN /\ (pc[t] = "Receive_checking" /\ pc'[t] # pc[t])
                 => IF rejected
                    THEN /\ pc'[t] = "idle"
                         /\ ReturnedFalse(f)
                         /\ f.read = "none"
                         /\ pendingReads' = pendingReads
                    ELSE pc'[t] = "Receive_unlocked"
            /\ (pc[t] = "Receive_locked" /\ pc'[t] # pc[t])
                 => /\ ~f.fault
                    /\ pc'[t] = "Receive_waiting"
                    /\ Len(pendingReads') = Len(pendingReads) + 1
                    /\ pendingReads'[Len(pendingReads')].thread = t
                    /\ \E p \in DOMAIN mInputSockets :
                         /\ p = f.loc.port
                         /\ mInputSockets[p].id =
                              pendingReads'[Len(pendingReads')].sock
            /\ (pc[t] = "Receive_waiting" /\ pc'[t] # pc[t])
                 => /\ pc'[t] = "idle"
                    /\ ~f.fault
                    /\ f.handlerRuns = 1
                    /\ Len(f.completion) = 1
                    /\ IF f.completion[1].error
                       THEN f.ret = FALSE /\ f.receiveBufferSize = <<0>>
                       ELSE /\ f.ret = TRUE
                            /\ f.receiveBufferSize = <<f.completion[1].bytes>>
                            /\ Len(f.remoteLocator) = 1
                            /\ f.remoteLocator[1].address =
                                 f.completion[1].sender.addr
                            /\ f.remoteLocator[1].port =
                                 f.completion[1].sender.port]_vars

\* C14: OpenOutputChannel, OpenInputChannel and Send end with a boolean
\* result whatever native call failed; no fault leaves the call.
C14_NoFaultEscapes ==
    \A t \in Threads :
       frame[t].op \in {"OpenOutputChannel", "OpenInputChannel", "Send"}
         => ~frame[t].fault

\* C16: a Receive whose channel is closed by another thread ends with a
\* boolean result: closed between the open-check and the registration of
\* the read, Receive looks up no socket and returns false; closed after the
\* registration, Receive returns false through the cancelled read.
C16_ReceiveCloseRace ==
    [][\A t \in Threads :
         /\ frame'[t].op = "Receive" => ~frame'[t].fault
         /\ (/\ pc[t] = "Receive_locked"
             /\ pc'[t] # pc[t]
             /\ frame[t].loc.port \notin DOMAIN mInputSockets)
              => (pc'[t] = "idle" /\ ReturnedFalse(frame'[t]))
         /\ (/\ pc[t] = "Receive_waiting"
             /\ pc'[t] # pc[t]
             /\ frame[t].read = "cancelled")
              => (pc'[t] = "idle" /\ ReturnedFalse(frame'[t]))]_vars

\* C17: an open that passed the test for an open channel and returns false
\* (the granular address is filtered out, or a bind throws, also after
\* earlier interfaces of the port were bound) leaves no entry for the key
\* and every other entry as it was, and the binds before it touched no
\* other key; when it bound nothing, and when an OpenInputChannel of a
\* channel that was not open returns false, the maps are what they were.
C17_FailedOpenLeavesNothing ==
    [][\A t \in Threads :
         /\ (/\ pc[t] = "OpenOutputChannel_locked"
             /\ Leaves(t)
             /\ ReturnedFalse(frame'[t]))
              => /\ ~OutputOpenIn(mOutputSockets', mGranularOutputSockets',
                                  frame[t].loc)
                 /\ ~OutKeyIn(mOutputSockets', mGranularOutputSockets',
                              frame[t].loc)
                 /\ mInputSockets' = mInputSockets
                 /\ IF mGranularMode
                    THEN /\ mOutputSockets' = mOutputSockets
                         /\ mGranularOutputSockets'
                              = Without(mGranularOutputSockets, frame[t].loc)
                    ELSE /\ mGranularOutputSockets' = mGranularOutputSockets
                         /\ mOutputSockets'
                              = Without(mOutputSockets, frame[t].loc.port)
                 /\ frame[t].i = 0
                      => /\ mOutputSockets' = mOutputSockets
                         /\ mGranularOutputSockets' = mGranularOutputSockets
         /\ (pc[t] = "OpenOutputChannel_locked" /\ pc'[t] = pc[t])
              => /\ Without(mOutputSockets', frame[t].loc.port)
                      = Without(mOutputSockets, frame[t].loc.port)
                 /\ mGranularOutputSockets' = mGranularOutputSockets
                 /\ mInputSockets' = mInputSockets
         /\ (/\ pc[t] = "OpenInputChannel_locked"
             /\ Leaves(t)
             /\ ~InKeyIn(mInputSockets, frame[t].loc)
             /\ ReturnedFalse(frame'[t]))
              => /\ ~InputOpenIn(mInputSockets', frame[t].loc)
                 /\ registry' = registry]_vars

\* A shared-mode open over a whitelist of two interfaces failed at the
\* second bind, after the first socket was bound, and left no entry.
C17_Witness ==
    \E t \in Threads :
       /\ Left(t, "OpenOutputChannel")
       /\ ReturnedFalse(frame[t])
       /\ frame[t].loc.kind = LOCATOR_KIND_UDPv6
       /\ ~mGranularMode
       /\ mInterfaceWhiteList = {AddrIfA, AddrIfB}
       /\ frame[t].i # 0
       /\ LocalIP6s[frame[t].i] = AddrIfA
       /\ frame[t].loc.port \notin DOMAIN mOutputSockets

\* C19: an OpenOutputChannel that returns true leaves the channel open with
\* at least one socket under its key; one that returns false on a channel
\* that was not open leaves it not open.
C19_OpenAgreesWithRegistry ==
    [][\A t \in Threads :
         (frame[t].op = "OpenOutputChannel" /\ Leaves(t))
           => /\ ReturnedTrue(frame'[t])
                => /\ OutputOpenIn(mOutputSockets', mGranularOutputSockets',
                                   frame[t].loc)
                   /\ OutKeyIn(mOutputSockets', mGranularOutputSockets',
                               frame[t].loc)
                   /\ Len(OutSocketsIn(mOutputSockets', mGranularOutputSockets',
                                       frame[t].loc)) >= 1
              /\ (/\ ReturnedFalse(frame'[t])
                  /\ \/ pc[t] = "OpenOutputChannel_locked"
                     \/ ~OutKeyIn(mOutputSockets, mGranularOutputSockets,
                                  frame[t].loc))
                => ~OutputOpenIn(mOutputSockets', mGranularOutputSockets',
                                 frame[t].loc)]_vars

\* C15: concurrent OpenOutputChannel calls never replace or extend a
\* channel: an open that binds its first socket or returns true finds the
\* key unregistered (so at most one of the calls for a key returns true and
\* the key holds the sockets of one open), and a registered key leaves the
\* maps only by CloseOutputChannel for it or by the roll-back of the open
\* that was still building it.
C15_OpensSerialized ==
    [][/\ \A t \in Threads :
            (/\ pc[t] = "OpenOutputChannel_locked"
             /\ frame[t].i = 0
             /\ \/ pc'[t] = "idle" /\ ReturnedTrue(frame'[t])
                \/ frame'[t].i # 0)
              => ~OutKeyIn(mOutputSockets, mGranularOutputSockets, frame[t].loc)
       /\ \A l \in MTOutLocators :
            (/\ OutKeyIn(mOutputSockets, mGranularOutputSockets, l)
             /\ ~OutKeyIn(mOutputSockets', mGranularOutputSockets', l))
              => \E u \in Threads :
                   /\ pc'[u] = "idle"
                   /\ IF mGranularMode THEN frame[u].loc = l
                      ELSE frame[u].loc.port = l.port
                   /\ \/ pc[u] = "CloseOutputChannel_locked"
                      \/ pc[u] = "OpenOutputChannel_locked" /\ frame[u].i # 0
      ]_vars

\* C18: a reader of the registry finds only entries that are fully built.
\* When IsOutputChannelOpen (also inside OpenOutputChannel) or Send reads
\* the output maps, no other thread is inside the section of an open that
\* binds sockets, and in shared mode the entry the reader finds for its port
\* has a socket, and over a whitelist a socket on every whitelisted local
\* interface; over a whitelist Send writes to no fewer sockets than the
\* whitelisted interfaces of the port. When IsInputChannelOpen or Receive
\* finds the entry of its port, the entry is not a socket that a failed
\* OpenInputChannel of another thread created and left without the
\* multicast group it was opened for.
C18_NoPartialEntryObserved ==
    [][\A u \in Threads :
         /\ (/\ pc[u] \in {"IsOutputChannelOpen_locked", "Send_locked",
                           "OpenOutputChannel_checking"}
             /\ pc'[u] # pc[u])
              => /\ \A t \in Threads \ {u} : pc[t] # "OpenOutputChannel_locked"
                 /\ (/\ ~mGranularMode
                     /\ OutKeyIn(mOutputSockets, mGranularOutputSockets,
                                 frame[u].loc))
                      => LET socks == mOutputSockets[frame[u].loc.port]
                         IN /\ socks # <<>>
                            /\ mInterfaceWhiteList # {}
                                 => \A k \in DOMAIN WhiteListedLocal :
                                       \E i \in DOMAIN socks :
                                          socks[i].addr = WhiteListedLocal[k]
         /\ (/\ pc[u] = "Send_locked"
             /\ pc'[u] # pc[u]
             /\ ~mGranularMode
             /\ mInterfaceWhiteList # {}
             /\ frame'[u].writes # <<>>)
              => Len(frame'[u].writes) >= Len(WhiteListedLocal)
         /\ (/\ pc[u] \in {"IsInputChannelOpen_locked", "Receive_checking",
                           "Receive_locked"}
             /\ pc'[u] # pc[u]
             /\ InKeyIn(mInputSockets, frame[u].loc))
              => LET socket == mInputSockets[frame[u].loc.port]
                 IN \A t \in Threads \ {u} :
                       ~(/\ Left(t, "OpenInputChannel")
                         /\ frame[t].fault
                         /\ socket.id \in frame[t].opened
                         /\ ToAddressV6(frame[t].loc) \notin socket.groups)]_vars

\* Labels at which a thread holds the input mutex, and the output mutex.
InputLocked ==
    {"OpenInputChannel_locked", "CloseInputChannel_locked", "Receive_checking",
     "Receive_locked", "IsInputChannelOpen_locked"}
OutputLocked ==
    {"OpenOutputChannel_checking", "OpenOutputChannel_locked",
     "CloseOutputChannel_locked", "Send_locked", "IsOutputChannelOpen_locked"}
\* Labels of a thread inside an input-channel method other than Receive.
InputCalls ==
    {"OpenInputChannel", "OpenInputChannel_locked", "CloseInputChannel",
     "CloseInputChannel_locked", "IsInputChannelOpen",
     "IsInputChannelOpen_locked"}

\* C20: a thread suspended in Receive owns neither mutex; a mutex is owned
\* only by a thread inside the section of its own direction, which holds
\* no other mutex and can always take its next step; and, in a live
\* process, a thread inside a method, other than a suspended Receive, can
\* take a step itself or waits
\* for a mutex whose owner can: whatever Receive calls are suspended,
\* OpenInputChannel, CloseInputChannel, IsInputChannelOpen, Send and the
\* output operations are never blocked for good.
C20_NoLockWhileBlocked ==
    \A t \in Threads :
       /\ pc[t] = "Receive_waiting"
            => mInputMapMutex.owner # t /\ mOutputMapMutex.owner # t
       /\ mInputMapMutex.owner = t
            => pc[t] \in InputLocked /\ mOutputMapMutex.owner # t
       /\ mOutputMapMutex.owner = t
            => pc[t] \in OutputLocked /\ mInputMapMutex.owner # t
       /\ (mInputMapMutex.owner = t \/ mOutputMapMutex.owner = t)
            => ENABLED Step(t)
       /\ (alive /\ pc[t] \notin {"idle", "Receive_waiting"})
            => \/ ENABLED Step(t)
               \/ \E u \in Threads \ {t} :
                    /\ mInputMapMutex.owner = u \/ mOutputMapMutex.owner = u
                    /\ pc[u] # "Receive_waiting"
                    /\ ENABLED Step(u)

\* One thread is suspended in Receive with its read pending, the mutex is
\* free, and the other thread has returned true from IsInputChannelOpen.
C20_Witness ==
    \E t \in Threads, u \in Threads :
       /\ pc[u] = "Receive_waiting"
       /\ frame[u].read = "pending"
       /\ mInputMapMutex = NoOwner
       /\ pc[t] = "idle"
       /\ frame[t].op = "IsInputChannelOpen"
       /\ ReturnedTrue(frame[t])

====
